---- MODULE Spec2Model ----
(***************************************************************************)
(* A model of the Telegram phone-number checker (src/main.py): the login   *)
(* sequence, the two phone probes (get_names, is_phone_registered), the    *)
(* two batch validators (validate_users, get_info_phone_number), the HTTP  *)
(* handlers /v1/api/accounts and /v1/api/auth/login, and the command-line  *)
(* run (run_program).  The vendor platform is the environment: each call   *)
(* to it answers with one of the outcomes the SDK can produce.             *)
(***************************************************************************)
EXTENDS Integers, Sequences, FiniteSets, TLC

\* Longest phone_numbers string that is enumerated.
MaxLen == 2
\* Most users one ImportContactsRequest answers with; also the user ids 1..MaxUsers.
MaxUsers == 2

Ids == 1..MaxUsers

\* The characters of a phone_numbers string: a digit, a whitespace, the separator.
Chars == {"1", " ", ","}
Whitespace == {" "}
Strings == UNION {[1..k -> Chars] : k \in 0..MaxLen}
\* The lines the console answers the prompt for phone numbers with.
PromptLines == {<<>>, <<"1">>, <<" ", ",">>}

Range(s) == {s[i] : i \in 1..Len(s)}

\* The sequences over S of length at most n in ascending order.
AscendingSeqs(S, n) ==
    {s \in UNION {[1..k -> S] : k \in 0..n} :
        \A i, j \in 1..Len(s) : i < j => s[i] < s[j]}

(***************************************************************************)
(* Pure helpers of the batch validators.                                   *)
(***************************************************************************)

\* str.split(","): the pieces between the commas; always at least one piece.
RECURSIVE split(_)
split(s) ==
    IF \A i \in 1..Len(s) : s[i] # ","
    THEN <<s>>
    ELSE LET i == CHOOSE k \in 1..Len(s) :
                        s[k] = "," /\ \A j \in 1..(k - 1) : s[j] # ","
         IN <<SubSeq(s, 1, i - 1)>> \o split(SubSeq(s, i + 1, Len(s)))

\* re.sub(r"\s+", "", p): p without its whitespace characters.
re_sub(p) == SelectSeq(p, LAMBDA c : c \notin Whitespace)

\* phones = [re.sub(...) for p in phone_numbers.split(",")]
split_phones(s) == [i \in 1..Len(split(s)) |-> re_sub(split(s)[i])]

\* A bug a maintainer could make: the duplicate check is dropped.
not_in_result_always(phone, res) == TRUE

\* `phone not in result`: result is a dict, kept as the sequence of its items
\* in insertion order.
not_in_result(phone, res) == \A i \in 1..Len(res) : res[i].key # phone

\* result[phone] = value: a new key is appended, a present key keeps its place.
dict_set(res, k, v) ==
    IF \E i \in 1..Len(res) : res[i].key = k
    THEN [i \in 1..Len(res) |->
             IF res[i].key = k THEN [key |-> k, val |-> v] ELSE res[i]]
    ELSE Append(res, [key |-> k, val |-> v])

\* `not phone_numbers or not len(phone_numbers)`: None or the empty string.
is_empty_input(pn) == ~pn.given \/ Len(pn.s) = 0

(***************************************************************************)
(* Pure helpers of the probes.                                             *)
(***************************************************************************)

\* The exceptions a vendor request of a probe can raise.
ProbeErrors == {"TypeError", "FloodWaitError", "UserDeactivatedError",
                "UserRestrictedError", "PhoneNumberUnoccupiedError", "Exception"}

\* An entry of a result mapping: a profile record (id of the user it was built
\* from), an {"error": text} record of get_names, or a status string of
\* is_phone_registered.
Entry(kind, text, id) == [kind |-> kind, text |-> text, id |-> id]
NoEntry == Entry("none", "", 0)

\* A bug a maintainer could make: one match or more takes the delete branch.
match_branch_ge1(n) == IF n = 0 THEN "none" ELSE "one"

\* A bug a maintainer could make: the delete branch is lost.
match_branch_no_delete(n) == IF n = 0 THEN "none" ELSE "multiple"

\* get_names: the three-way branch on number_of_matches.
match_branch(n) == IF n = 0 THEN "none" ELSE IF n = 1 THEN "one" ELSE "multiple"

\* A bug a maintainer could make: the two status strings are swapped.
registered_status_swapped(users) ==
    IF users # <<>> THEN "Chua dang ky." ELSE "Da dang ky."

\* is_phone_registered: `if result.users:` chooses the status string.
registered_status(users) ==
    IF users # <<>> THEN "Da dang ky." ELSE "Chua dang ky."

\* is_phone_registered: the except clauses, in order; each returns a string.
exception_status(e) ==
    CASE e = "FloodWaitError" -> "Flood wait error"
      [] e = "UserDeactivatedError" -> "Tai khoan bi vo hieu hoa."
      [] e = "UserRestrictedError" -> "Tai khoan bi han che."
      [] e = "PhoneNumberUnoccupiedError" -> "Chua dang ky."
      [] OTHER -> "An error occurred"

\* get_names: `except TypeError` records an error entry and the probe returns;
\* `except Exception` re-raises.
get_names_catches(e) == e = "TypeError"

\* The answers of ImportContactsRequest: the matched users and, among them,
\* those the request added to the address book (result.imported).
ImportResponses ==
    {[users |-> u, imported |-> SelectSeq(u, LAMBDA x : x \in S)] :
        u \in AscendingSeqs(Ids, MaxUsers), S \in SUBSET Ids}

\* The answers of DeleteContactsRequest: updates_response.users.
DeleteResponses == {<<>>} \cup {<<i>> : i \in Ids}

(***************************************************************************)
(* Pure helpers of login and of the HTTP handlers.                         *)
(***************************************************************************)

\* A bug a maintainer could make: the session's authorization is not asked.
needs_code_unasked(send, auth) == send

\* login line 138: `is_send_code and not await client.is_user_authorized()`.
needs_code(send, auth) == send /\ ~auth

\* A bug a maintainer could make: login never answers None.
returns_None_never(send, auth) == FALSE

\* login line 150: `not is_send_code and not await client.is_user_authorized()`.
returns_None(send, auth) == ~send /\ ~auth

\* A bug a maintainer could make: only the presence of the header is checked.
api_key_invalid_presence(h, key) == h = "missing"

\* `'api-key' not in request.headers or request.headers['api-key'] !=
\* os.getenv("API_KEY")`; an unset API_KEY is None, which equals no header.
api_key_invalid(h, key) == h = "missing" \/ h # key

Response(status, message, code) ==
    [status |-> status, message |-> message, code |-> code]
NoResponse == Response(0, "", 0)

\* What the caller of a handler sees when exception e leaves its try block:
\* the `except ValueError` envelope, or the framework's own answer (400 for
\* the BadRequest of get_json, 500 otherwise); the command line run dies.
error_response(ep, e) ==
    IF ep = "cli" THEN Response(1, e, 0)
    ELSE IF e = "ValueError" THEN Response(500, "login is failed", 500)
    ELSE IF e = "BadRequest" THEN Response(400, "Bad Request", 0)
    ELSE Response(500, "Internal Server Error", 0)

NoPn == [given |-> FALSE, s |-> <<>>]
PhoneInputs == {NoPn} \cup {[given |-> TRUE, s |-> s] : s \in Strings}
Body(json, creds, pn) == [json |-> json, creds |-> creds, pn |-> pn]
NoBody == Body("none", FALSE, NoPn)
\* The bodies of a POST: not JSON, JSON without the credential fields, JSON
\* with them and with or without phone_numbers.
LoginBodies == {Body("malformed", FALSE, NoPn), Body("ok", FALSE, NoPn),
                Body("ok", TRUE, NoPn)}
AccountBodies == LoginBodies \cup {Body("ok", TRUE, pn) : pn \in PhoneInputs}
Headers == {"missing", "k1", "k2"}
\* os.getenv("API_KEY"): None when the variable is not set.
EnvKeys == {"unset", "k1"}

\* The exceptions a vendor call of login can raise (besides the request for
\* the second factor, which only sign_in with a code raises).
LoginErrors == {"ValueError", "Exception"}

(***************************************************************************)
(* State.                                                                  *)
(***************************************************************************)
VARIABLES
    API_KEY,        \* what os.getenv("API_KEY") answers this handler
    authorized,     \* the platform's view of the session: is it signed in
    contacts,       \* the account's address book: the user ids in it
    pc,             \* where the running handler stands
    entry,          \* the running handler: "accounts", "login" or "cli"
    header,         \* the request's api-key header
    is_send_code,   \* login's flag
    data,           \* the request body (the arguments of a command line run)
    client_tele,    \* what login returned: "unset", "None" or "client"
    connected,      \* the client of this run is connected
    calls,          \* the calls made so far in this run, in order
    authReport,     \* the last answer of is_user_authorized: "none", "yes", "no"
    sign_in_error,  \* the exception the try block of login caught, or ""
    response,       \* what the handler answered
    phone_numbers,  \* the string the batch validator splits
    phones,         \* the stripped phone numbers, in input order
    idx,            \* the position of the for loop in phones
    result,         \* the result mapping, as its items in insertion order
    probed,         \* the phone numbers the probe was called with, in order
    batchStatus,    \* "none", "running", "returned" or "raised"
    probe           \* the probe that runs, or that ended in the last step

envVars == <<authorized, contacts>>
argVars == <<API_KEY, entry, header, is_send_code, data>>
reqVars == <<argVars, sign_in_error>>
batchVars == <<phone_numbers, phones, idx, result, probed, batchStatus>>
vars == <<API_KEY, authorized, contacts, pc, entry, header, is_send_code, data,
          client_tele, connected, calls, authReport, sign_in_error, response,
          phone_numbers,
          phones, idx, result, probed, batchStatus, probe>>

\* A probe: its function and argument; whether the import request answered,
\* the users and the imported contacts of its answer, and the ids it added to
\* the address book; how the delete request ended ("none": not issued) and the
\* users of its answer; the requests issued, in order; the exception that was
\* raised; how the probe ended and what it returned.
NoProbe == [fn |-> "none", phone |-> <<>>, answered |-> FALSE, users |-> <<>>,
            imported |-> <<>>, added |-> {}, deleted |-> "none",
            updates |-> <<>>, calls |-> <<>>, raised |-> "", status |-> "none",
            result |-> NoEntry]

Init ==
    /\ API_KEY = "unset"
    /\ authorized \in BOOLEAN
    /\ contacts = {}
    /\ pc = "idle"
    /\ entry = "none"
    /\ header = "missing"
    /\ is_send_code = FALSE
    /\ data = NoBody
    /\ client_tele = "unset"
    /\ connected = FALSE
    /\ calls = <<>>
    /\ authReport = "none"
    /\ sign_in_error = ""
    /\ response = NoResponse
    /\ phone_numbers = <<>>
    /\ phones = <<>>
    /\ idx = 1
    /\ result = <<>>
    /\ probed = <<>>
    /\ batchStatus = "none"
    /\ probe = NoProbe

\* A handler starts with a client, a batch and a probe of its own.
NewRun(ep, key, h, send, d) ==
    /\ pc = "idle"
    /\ API_KEY' = key
    /\ entry' = ep
    /\ header' = h
    /\ is_send_code' = send
    /\ data' = d
    /\ client_tele' = "unset"
    /\ connected' = FALSE
    /\ authReport' = "none"
    /\ sign_in_error' = ""
    /\ phone_numbers' = <<>>
    /\ phones' = <<>>
    /\ idx' = 1
    /\ result' = <<>>
    /\ probed' = <<>>
    /\ batchStatus' = "none"
    /\ probe' = NoProbe
    /\ UNCHANGED envVars

\* The api-key check and the reading of the body, common to both handlers.
handler_prologue(ep, key, h, d) ==
    IF api_key_invalid(h, key)
    THEN /\ calls' = <<>>
         /\ response' = Response(401, "api key is invalid", 401)
         /\ pc' = "done"
    ELSE /\ calls' = <<"get_json">>
         /\ IF d.json = "malformed"
            THEN response' = error_response(ep, "BadRequest") /\ pc' = "done"
            ELSE IF ~d.creds
            THEN response' = error_response(ep, "KeyError") /\ pc' = "done"
            ELSE response' = NoResponse /\ pc' = "login_new"

\* POST /v1/api/accounts, up to the call of login(..., False).
handle_account_request(key, h, d) ==
    /\ NewRun("accounts", key, h, FALSE, d)
    /\ handler_prologue("accounts", key, h, d)

\* POST /v1/api/auth/login, up to the call of login(..., True).
handle_login_request(key, h, d) ==
    /\ NewRun("login", key, h, TRUE, d)
    /\ handler_prologue("login", key, h, d)

\* The command line run, up to the call of login(..., True).
run_program(pn) ==
    /\ NewRun("cli", "unset", "missing", TRUE, Body("ok", TRUE, pn))
    /\ calls' = <<>>
    /\ response' = NoResponse
    /\ pc' = "login_new"

\* An exception leaves the handler: nothing after the raising line runs.
Raise(e) ==
    /\ pc' = "done"
    /\ response' = error_response(entry, e)

(***************************************************************************)
(* login                                                                   *)
(***************************************************************************)
\* client = TelegramClient(phone_number, api_id, api_hash)
login_new ==
    /\ pc = "login_new"
    /\ calls' = Append(calls, "TelegramClient")
    /\ \/ pc' = "login_connect" /\ UNCHANGED response
       \/ Raise("ValueError")
    /\ UNCHANGED <<envVars, reqVars, batchVars, probe, client_tele, connected,
                   authReport>>

\* await client.connect()
login_connect ==
    /\ pc = "login_connect"
    /\ calls' = Append(calls, "connect")
    /\ \/ connected' = TRUE /\ pc' = "login_138" /\ UNCHANGED response
       \/ \E e \in LoginErrors : Raise(e) /\ UNCHANGED connected
    /\ UNCHANGED <<envVars, reqVars, batchVars, probe, client_tele, authReport>>

\* if is_send_code and not await client.is_user_authorized():
login_138 ==
    /\ pc = "login_138"
    /\ IF is_send_code
       THEN /\ calls' = Append(calls, "is_user_authorized")
            /\ \/ /\ authReport' = IF authorized THEN "yes" ELSE "no"
                  /\ pc' = IF needs_code(is_send_code, authorized)
                           THEN "login_send_code" ELSE "login_150"
                  /\ UNCHANGED response
               \/ \E e \in LoginErrors : Raise(e) /\ UNCHANGED authReport
       ELSE /\ pc' = IF needs_code(is_send_code, authorized)
                     THEN "login_send_code" ELSE "login_150"
            /\ UNCHANGED <<calls, authReport, response>>
    /\ UNCHANGED <<envVars, reqVars, batchVars, probe, client_tele, connected>>

\* await client.send_code_request(phone_number)
login_send_code ==
    /\ pc = "login_send_code"
    /\ calls' = Append(calls, "send_code_request")
    /\ \/ pc' = "login_sign_in" /\ UNCHANGED response
       \/ \E e \in LoginErrors : Raise(e)
    /\ UNCHANGED <<envVars, reqVars, batchVars, probe, client_tele, connected,
                   authReport>>

\* await client.sign_in(phone_number, input(...)), in its try block
login_sign_in ==
    /\ pc = "login_sign_in"
    /\ calls' = calls \o <<"input_code", "sign_in">>
    /\ \/ /\ authorized' = TRUE
          /\ pc' = "login_150"
          /\ UNCHANGED <<response, sign_in_error>>
       \/ /\ sign_in_error' = "SessionPasswordNeededError"
          /\ pc' = "login_password"
          /\ UNCHANGED <<authorized, response>>
       \/ \E e \in LoginErrors :
             Raise(e) /\ UNCHANGED <<authorized, sign_in_error>>
    /\ UNCHANGED <<contacts, argVars, batchVars, probe, client_tele,
                   connected, authReport>>

\* except SessionPasswordNeededError: pw = getpass(...); sign_in(password=pw)
login_password ==
    /\ pc = "login_password"
    /\ calls' = calls \o <<"getpass", "sign_in_password">>
    /\ \/ authorized' = TRUE /\ pc' = "login_150" /\ UNCHANGED response
       \/ \E e \in LoginErrors : Raise(e) /\ UNCHANGED authorized
    /\ UNCHANGED <<contacts, reqVars, batchVars, probe, client_tele,
                   connected, authReport>>

\* if not is_send_code and not await client.is_user_authorized(): return None
\* return client
login_150 ==
    /\ pc = "login_150"
    /\ IF is_send_code
       THEN /\ client_tele' = IF returns_None(is_send_code, authorized)
                              THEN "None" ELSE "client"
            /\ pc' = "login_returned"
            /\ UNCHANGED <<calls, authReport, response>>
       ELSE /\ calls' = Append(calls, "is_user_authorized")
            /\ \/ /\ authReport' = IF authorized THEN "yes" ELSE "no"
                  /\ client_tele' = IF returns_None(is_send_code, authorized)
                                    THEN "None" ELSE "client"
                  /\ pc' = "login_returned"
                  /\ UNCHANGED response
               \/ \E e \in LoginErrors :
                     Raise(e) /\ UNCHANGED <<authReport, client_tele>>
    /\ UNCHANGED <<envVars, reqVars, batchVars, probe, connected>>

(***************************************************************************)
(* The handlers after login                                                *)
(***************************************************************************)
\* handle_account_request lines 316-323: the None answer, else the lookup.
handle_account_request_lookup ==
    /\ pc = "login_returned" /\ entry = "accounts"
    /\ IF client_tele = "None"
       THEN pc' = "done" /\ response' = Response(200, "", 500)
       ELSE IF ~data.pn.given
       THEN Raise("KeyError")
       ELSE pc' = "batch_start" /\ UNCHANGED response
    /\ UNCHANGED <<envVars, reqVars, batchVars, probe, client_tele, connected,
                   calls, authReport>>

\* handle_account_request lines 324-326: disconnect and answer the mapping.
handle_account_request_return ==
    /\ pc = "batch_returned" /\ entry = "accounts"
    /\ calls' = Append(calls, "disconnect")
    /\ connected' = FALSE
    /\ response' = Response(200, "result mapping", 0)
    /\ pc' = "done"
    /\ UNCHANGED <<envVars, reqVars, batchVars, probe, client_tele, authReport>>

\* handle_login_request lines 350-356: disconnect and answer success.
handle_login_request_return ==
    /\ pc = "login_returned" /\ entry = "login"
    /\ calls' = Append(calls, "disconnect")
    /\ connected' = FALSE
    /\ response' = Response(200, "login is successfully", 200)
    /\ pc' = "done"
    /\ UNCHANGED <<envVars, reqVars, batchVars, probe, client_tele, authReport>>

\* run_program line 255: res = await validate_users(client, phone_numbers)
run_program_validate ==
    /\ pc = "login_returned" /\ entry = "cli"
    /\ pc' = "batch_start"
    /\ UNCHANGED <<envVars, reqVars, batchVars, probe, client_tele, connected,
                   calls, authReport, response>>

\* run_program lines 256-257: show_results(output, res); client.disconnect()
run_program_return ==
    /\ pc = "batch_returned" /\ entry = "cli"
    /\ \/ /\ calls' = calls \o <<"show_results", "disconnect">>
          /\ connected' = FALSE
          /\ response' = Response(0, "Results saved", 0)
          /\ pc' = "done"
       \/ /\ calls' = Append(calls, "show_results")
          /\ Raise("OSError")
          /\ UNCHANGED connected
    /\ UNCHANGED <<envVars, reqVars, batchVars, probe, client_tele, authReport>>

(***************************************************************************)
(* The batch validators                                                    *)
(***************************************************************************)
\* Lines 116-119 and 289-292: an empty or absent input is replaced by a
\* line read from the console, then split and stripped.
batch_start ==
    /\ pc = "batch_start"
    /\ IF is_empty_input(data.pn)
       THEN \E s \in PromptLines :
               /\ calls' = Append(calls, "input")
               /\ phone_numbers' = s
               /\ phones' = split_phones(s)
       ELSE /\ phone_numbers' = data.pn.s
            /\ phones' = split_phones(data.pn.s)
            /\ UNCHANGED calls
    /\ result' = <<>>
    /\ idx' = 1
    /\ probed' = <<>>
    /\ batchStatus' = "running"
    /\ pc' = "batch_loop"
    /\ UNCHANGED <<envVars, reqVars, probe, client_tele, connected, authReport,
                   response>>

\* validate_users (the command line run)
validate_users_start == entry = "cli" /\ batch_start

\* get_info_phone_number (the accounts handler)
get_info_phone_number_start == entry = "accounts" /\ batch_start

\* `if phone not in result` is false: the loop goes to the next phone.
batch_skip ==
    /\ pc = "batch_loop"
    /\ idx <= Len(phones)
    /\ ~not_in_result(phones[idx], result)
    /\ idx' = idx + 1
    /\ probe' = NoProbe
    /\ UNCHANGED <<envVars, reqVars, client_tele, connected, authReport,
                   response, calls, pc, phone_numbers, phones, result, probed,
                   batchStatus>>

\* The loop is over: return result.
batch_return ==
    /\ pc = "batch_loop"
    /\ idx > Len(phones)
    /\ batchStatus' = "returned"
    /\ pc' = "batch_returned"
    /\ probe' = NoProbe
    /\ UNCHANGED <<envVars, reqVars, client_tele, connected, authReport,
                   response, calls, phone_numbers, phones, idx, result, probed>>

(***************************************************************************)
(* The probes                                                              *)
(***************************************************************************)
StartProbe(fn) ==
    [NoProbe EXCEPT !.fn = fn, !.phone = phones[idx], !.status = "running",
                    !.calls = <<"import">>]

\* The probe returns v: result[phone] = v, and the loop goes on.
ProbeReturns(p, v) ==
    /\ probe' = [p EXCEPT !.status = "returned", !.result = v]
    /\ result' = dict_set(result, p.phone, v)
    /\ idx' = idx + 1
    /\ pc' = "batch_loop"
    /\ UNCHANGED <<batchStatus, response>>

\* The probe raises e: the batch validator prints it and raises it again.
ProbeRaises(p, e) ==
    /\ probe' = [p EXCEPT !.status = "raised", !.raised = e]
    /\ batchStatus' = "raised"
    /\ Raise(e)
    /\ UNCHANGED <<result, idx>>

\* The import answered r: the imported users are in the address book now.
Imported(p, r) ==
    [p EXCEPT !.answered = TRUE, !.users = r.users, !.imported = r.imported,
              !.added = Range(r.imported) \ contacts]

\* get_names lines 47-63 and 91-107: the import request and its branches.
get_names_import ==
    /\ pc = "batch_loop" /\ entry = "cli"
    /\ idx <= Len(phones)
    /\ not_in_result(phones[idx], result)
    /\ calls' = Append(calls, "ImportContactsRequest")
    /\ probed' = Append(probed, phones[idx])
    /\ \/ \E e \in ProbeErrors :
            /\ IF get_names_catches(e)
               THEN ProbeReturns([StartProbe("get_names") EXCEPT !.raised = e],
                                 Entry("error", "TypeError", 0))
               ELSE ProbeRaises(StartProbe("get_names"), e)
            /\ UNCHANGED contacts
       \/ \E r \in ImportResponses :
            LET p == Imported(StartProbe("get_names"), r)
                b == match_branch(Len(r.users))
            IN /\ contacts' = contacts \cup Range(r.imported)
               /\ IF b = "none"
                  THEN ProbeReturns(p, Entry("error", "not on Telegram", 0))
                  ELSE IF b = "one"
                  THEN /\ probe' = p
                       /\ pc' = "get_names_delete"
                       /\ UNCHANGED <<result, idx, batchStatus, response>>
                  ELSE ProbeReturns(p, Entry("error", "multiple accounts", 0))
    /\ UNCHANGED <<authorized, reqVars, client_tele, connected,
                   authReport, phone_numbers, phones>>

\* get_names lines 64-90: the delete request for users[0] and the profile
\* record built from its answer.
get_names_delete ==
    /\ pc = "get_names_delete"
    /\ calls' = Append(calls, "DeleteContactsRequest")
    /\ LET p == [probe EXCEPT !.calls = Append(probe.calls, "delete")]
       IN \/ \E e \in ProbeErrors :
               /\ IF get_names_catches(e)
                  THEN ProbeReturns([p EXCEPT !.deleted = "raised", !.raised = e],
                                    Entry("error", "TypeError", 0))
                  ELSE ProbeRaises([p EXCEPT !.deleted = "raised"], e)
               /\ UNCHANGED contacts
          \/ \E u \in DeleteResponses :
               /\ contacts' = contacts \ {p.users[1]}
               /\ IF u = <<>>
                  THEN ProbeRaises([p EXCEPT !.deleted = "ok"], "Exception")
                  ELSE ProbeReturns([p EXCEPT !.deleted = "ok", !.updates = u],
                                    Entry("profile", "", u[1]))
    /\ UNCHANGED <<authorized, reqVars, client_tele, connected,
                   authReport, phone_numbers, phones, probed>>

\* is_phone_registered lines 261-269 and 271-282: the import request, the
\* status string, and the except clauses.
is_phone_registered_import ==
    /\ pc = "batch_loop" /\ entry = "accounts"
    /\ idx <= Len(phones)
    /\ not_in_result(phones[idx], result)
    /\ calls' = Append(calls, "ImportContactsRequest")
    /\ probed' = Append(probed, phones[idx])
    /\ \/ \E e \in ProbeErrors :
            /\ ProbeReturns([StartProbe("is_phone_registered") EXCEPT !.raised = e],
                            Entry("status", exception_status(e), 0))
            /\ UNCHANGED contacts
       \/ \E r \in ImportResponses :
            LET p == Imported(StartProbe("is_phone_registered"), r)
            IN /\ contacts' = contacts \cup Range(r.imported)
               /\ IF r.imported # <<>>
                  THEN /\ probe' = p
                       /\ pc' = "is_phone_registered_delete"
                       /\ UNCHANGED <<result, idx, batchStatus, response>>
                  ELSE ProbeReturns(p, Entry("status", registered_status(r.users), 0))
    /\ UNCHANGED <<authorized, reqVars, client_tele, connected,
                   authReport, phone_numbers, phones>>

\* is_phone_registered line 270: the delete request for imported[0].
is_phone_registered_delete ==
    /\ pc = "is_phone_registered_delete"
    /\ calls' = Append(calls, "DeleteContactsRequest")
    /\ LET p == [probe EXCEPT !.calls = Append(probe.calls, "delete")]
       IN \/ \E e \in ProbeErrors :
               /\ ProbeReturns([p EXCEPT !.deleted = "raised", !.raised = e],
                               Entry("status", exception_status(e), 0))
               /\ UNCHANGED contacts
          \/ /\ contacts' = contacts \ {p.imported[1]}
             /\ ProbeReturns([p EXCEPT !.deleted = "ok"],
                             Entry("status", registered_status(p.users), 0))
    /\ UNCHANGED <<authorized, reqVars, client_tele, connected,
                   authReport, phone_numbers, phones, probed>>

\* The run is over: its locals are gone; the platform's state and the
\* environment stay.
run_ends ==
    /\ pc = "done"
    /\ pc' = "idle"
    /\ API_KEY' = "unset"
    /\ entry' = "none"
    /\ header' = "missing"
    /\ is_send_code' = FALSE
    /\ data' = NoBody
    /\ client_tele' = "unset"
    /\ connected' = FALSE
    /\ calls' = <<>>
    /\ authReport' = "none"
    /\ sign_in_error' = ""
    /\ response' = NoResponse
    /\ phone_numbers' = <<>>
    /\ phones' = <<>>
    /\ idx' = 1
    /\ result' = <<>>
    /\ probed' = <<>>
    /\ batchStatus' = "none"
    /\ probe' = NoProbe
    /\ UNCHANGED envVars

Next ==
    \/ run_ends
    \/ \E key \in EnvKeys, h \in Headers, d \in AccountBodies :
          handle_account_request(key, h, d)
    \/ \E key \in EnvKeys, h \in Headers, d \in LoginBodies :
          handle_login_request(key, h, d)
    \/ \E pn \in PhoneInputs : run_program(pn)
    \/ login_new
    \/ login_connect
    \/ login_138
    \/ login_send_code
    \/ login_sign_in
    \/ login_password
    \/ login_150
    \/ handle_account_request_lookup
    \/ handle_account_request_return
    \/ handle_login_request_return
    \/ run_program_validate
    \/ run_program_return
    \/ validate_users_start
    \/ get_info_phone_number_start
    \/ batch_skip
    \/ batch_return
    \/ get_names_import
    \/ get_names_delete
    \/ is_phone_registered_import
    \/ is_phone_registered_delete

Spec == Init /\ [][Next]_vars

(***************************************************************************)
(* Properties                                                              *)
(***************************************************************************)
Has(s, x) == \E i \in 1..Len(s) : s[i] = x
ProbeEnded == probe.status \in {"returned", "raised"}
Http == entry \in {"accounts", "login"}
Keys(res) == [i \in 1..Len(res) |-> res[i].key]
\* The elements of s in the order of their first occurrence.
FirstOccurrences(s) ==
    LET first == SelectSeq([i \in 1..Len(s) |-> [at |-> i, v |-> s[i]]],
                           LAMBDA e : \A j \in 1..(e.at - 1) : s[j] # e.v)
    IN [i \in 1..Len(first) |-> first[i].v]
NoWhitespace(k) == \A i \in 1..Len(k) : k[i] \notin Whitespace
PlainStatus == {"Da dang ky.", "Chua dang ky."}

\* C1 (as claimed): when a probe returns or raises, no contact its import
\* added is left in the address book, and a failed delete request shows in
\* the probe's result (an error entry or error string) or in its exception.
C1_AddedContactsRemoved ==
    ProbeEnded =>
        /\ probe.added \cap contacts = {}
        /\ probe.deleted = "raised" =>
              \/ probe.status = "raised"
              \/ probe.result.kind = "error"
              \/ probe.result.kind = "status" /\ probe.result.text \notin PlainStatus

\* C2 (as claimed): an HTTP handler that connected a client ends with the
\* client disconnected, on every path.
C2_SessionReleased ==
    (pc = "done" /\ Http /\ Has(calls, "connect")) => ~connected

\* C3: a request whose api-key header is missing or differs from API_KEY is
\* answered 401 with the 'api key is invalid' envelope, and nothing else
\* happens: no body is read, no client is created or connected, no vendor
\* request is issued, no batch or probe runs.
C3_InvalidKeyNoSideEffects ==
    (Http /\ (header = "missing" \/ header # API_KEY)) =>
        /\ pc = "done"
        /\ response = Response(401, "api key is invalid", 401)
        /\ calls = <<>>
        /\ client_tele = "unset"
        /\ ~connected
        /\ batchStatus = "none"
        /\ probe = NoProbe

C3_Witness ==
    /\ entry = "accounts" /\ header = "k2" /\ API_KEY = "k1"
    /\ pc = "done" /\ response.status = 401

C5_LookupErrorsStayInBatch ==
    /\ batchStatus # "raised"
    /\ (ProbeEnded /\ probe.raised # "") =>
          /\ probe.status = "returned"
          /\ \E i \in 1..Len(result) :
                result[i].key = probe.phone /\ result[i].val = probe.result

\* C6: with is_send_code false, login sends no code, prompts for nothing
\* and attempts no sign-in; it returns None exactly when is_user_authorized
\* answered no; and the accounts handler runs the batch lookup only after
\* is_user_authorized answered yes.
C6_NoCodeWithoutInteractiveLogin ==
    /\ (entry # "none" /\ ~is_send_code) =>
          \A c \in {"send_code_request", "input_code", "sign_in", "getpass",
                    "sign_in_password"} : ~Has(calls, c)
    /\ (~is_send_code /\ authReport = "no") => client_tele = "None"
    /\ client_tele = "None" => (~is_send_code /\ authReport = "no")
    /\ (entry = "accounts" /\ (batchStatus # "none" \/ pc = "batch_start")) =>
          authReport = "yes" /\ client_tele = "client"

C6_Witness ==
    /\ entry = "accounts" /\ pc = "done" /\ client_tele = "None"
    /\ calls = <<"get_json", "TelegramClient", "connect", "is_user_authorized">>

\* C7 (as claimed): a get_names probe whose import answers one user issues
\* the delete request after the import, returns a profile record, and leaves
\* that user out of the address book.
C7_SingleMatchYieldsProfile ==
    (probe.fn = "get_names" /\ ProbeEnded /\ Len(probe.users) = 1) =>
        /\ probe.calls = <<"import", "delete">>
        /\ probe.status = "returned"
        /\ probe.result.kind = "profile"
        /\ probe.users[1] \notin contacts

\* C7 (amended): a get_names probe whose import answers one user always
\* issues the delete request after the import and before it ends.  If the
\* delete succeeds the user is out of the address book, and the probe
\* returns the profile built from the first user of the delete's answer (it
\* raises when that answer has no user).  If the delete raises TypeError the
\* probe returns the TypeError error entry; any other exception of the
\* delete propagates.
C7_SingleMatchDeleteAttempted ==
    (probe.fn = "get_names" /\ ProbeEnded /\ Len(probe.users) = 1) =>
        /\ probe.calls = <<"import", "delete">>
        /\ probe.deleted \in {"ok", "raised"}
        /\ probe.deleted = "ok" =>
              /\ probe.users[1] \notin contacts
              /\ probe.status = "returned" =>
                    /\ probe.updates # <<>>
                    /\ probe.result = Entry("profile", "", probe.updates[1])
              /\ probe.status = "raised" => probe.raised = "Exception"
        /\ probe.deleted = "raised" =>
              /\ probe.status = "returned" =>
                    /\ probe.raised = "TypeError"
                    /\ probe.result = Entry("error", "TypeError", 0)
              /\ probe.status = "raised" => probe.raised # "TypeError"

C7_Witness ==
    /\ probe.fn = "get_names" /\ probe.status = "returned"
    /\ Len(probe.users) = 1 /\ probe.users[1] \in probe.added
    /\ probe.result.kind = "profile"
    /\ probe.users[1] \notin contacts

\* C8: a get_names probe whose import answers more than one user returns
\* the multiple-accounts error entry, never a profile, and issues no delete
\* request.
C8_MultipleMatchesNoDelete ==
    (probe.fn = "get_names" /\ ProbeEnded /\ Len(probe.users) > 1) =>
        /\ probe.status = "returned"
        /\ probe.result = Entry("error", "multiple accounts", 0)
        /\ probe.calls = <<"import">>
        /\ probe.deleted = "none"

C8_Witness ==
    /\ probe.fn = "get_names" /\ probe.status = "returned"
    /\ Len(probe.users) = 2
    /\ probe.result.text = "multiple accounts"

\* C9: a probe whose import answers zero users never yields a profile:
\* get_names returns the not-on-Telegram error entry and issues no delete
\* request; is_phone_registered returns the not-registered string, unless a
\* later vendor error replaced it by that error's string.
C9_ZeroMatchesNotRegistered ==
    (ProbeEnded /\ probe.answered /\ probe.users = <<>>) =>
        /\ probe.status = "returned"
        /\ probe.result.kind # "profile"
        /\ probe.fn = "get_names" =>
              /\ probe.result = Entry("error", "not on Telegram", 0)
              /\ probe.calls = <<"import">>
        /\ probe.fn = "is_phone_registered" =>
              \/ probe.result = Entry("status", "Chua dang ky.", 0)
              \/ /\ probe.deleted = "raised"
                 /\ probe.result = Entry("status", exception_status(probe.raised), 0)

C9_Witness ==
    /\ probe.fn = "is_phone_registered" /\ probe.status = "returned"
    /\ probe.answered /\ probe.users = <<>>
    /\ probe.result.text = "Chua dang ky."

\* C10 (as claimed): the accounts handler never prompts the console for
\* phone numbers, and runs no batch on an empty or absent phone_numbers.
C10_NoPromptInHttp ==
    entry = "accounts" =>
        /\ ~Has(calls, "input")
        /\ batchStatus # "none" => ~is_empty_input(data.pn)

Count(s, x) == Cardinality({i \in 1..Len(s) : s[i] = x})
Before(s, x, y) == \E i, j \in 1..Len(s) : i < j /\ s[i] = x /\ s[j] = y
SignInCalls == {"send_code_request", "input_code", "sign_in", "getpass",
                "sign_in_password"}

\* C11: in login with is_send_code true: an authorized session gets no
\* code request and no sign-in; otherwise one send-code request precedes the
\* one sign-in with a code; the sign-in with a password is attempted once,
\* and only after the sign-in with a code was answered 'second factor
\* required'; any other error of a vendor call leaves login and reaches the
\* caller, with no call repeated and nothing run after it; and the client is
\* returned only on an authorized session, after the sequence ended without
\* error.
C11_InteractiveLoginSequence ==
    (is_send_code /\ entry # "none") =>
        /\ authReport = "yes" => \A c \in SignInCalls : ~Has(calls, c)
        /\ \A c \in SignInCalls \cup {"is_user_authorized"} : Count(calls, c) <= 1
        /\ Has(calls, "send_code_request") => authReport = "no"
        /\ Has(calls, "sign_in") =>
              /\ Before(calls, "is_user_authorized", "send_code_request")
              /\ Before(calls, "send_code_request", "sign_in")
        /\ Has(calls, "sign_in_password") <=>
              (sign_in_error = "SessionPasswordNeededError" /\ pc # "login_password")
        /\ Has(calls, "sign_in_password") => Before(calls, "sign_in", "sign_in_password")
        /\ (pc = "done" /\ Has(calls, "TelegramClient") /\ client_tele = "unset") =>
              /\ \E e \in LoginErrors : response = error_response(entry, e)
              /\ batchStatus = "none"
              /\ ~Has(calls, "disconnect")
              /\ calls[Len(calls)] \in
                    {"TelegramClient", "connect", "is_user_authorized",
                     "send_code_request", "sign_in", "sign_in_password"}
        /\ client_tele # "unset" =>
              /\ client_tele = "client"
              /\ authorized
              /\ \/ authReport = "yes"
                 \/ /\ authReport = "no"
                    /\ Has(calls, "sign_in")
                    /\ sign_in_error = "" \/ Has(calls, "sign_in_password")

C11_Witness ==
    /\ entry = "login" /\ client_tele = "client" /\ pc = "login_returned"
    /\ calls = <<"get_json", "TelegramClient", "connect", "is_user_authorized",
                 "send_code_request", "input_code", "sign_in", "getpass",
                 "sign_in_password">>
    /\ sign_in_error = "SessionPasswordNeededError"

====
